---------------------------- MODULE Spec2Model ----------------------------
(***************************************************************************)
(* Fan-out generation orchestrator of the CHC43121 generate route          *)
(* (src/src/app/api/generate/CHC43121/route.ts).                           *)
(*                                                                         *)
(* One POST session with generation id Gid is modelled together with the  *)
(* module-scoped cancellation store, the SSE channel, the p-limit         *)
(* scheduler, the per-question tasks (retry / timeout wrapper, stream      *)
(* reading, parsing, classification of errors) and the client's cancel     *)
(* (DELETE or request abort).  JavaScript runs each handler to its next    *)
(* await without interleaving, so every action is one such run.            *)
(***************************************************************************)
EXTENDS Integers, Sequences, FiniteSets, TLC

\* ------------------------------------------------------------------ bounds
\* Number of WorkItems (unit, question) the schema enumerates.
NumItems == 3

\* Number of failed model calls (rejections, timeouts, failed stream reads)
\* the environment spreads over the WorkItems of one session; one WorkItem
\* alone may in any case fail until its attempts are used up.
MaxFaults == 2

\* Number of units of the schemas whose WorkItems are enumerated.
MaxUnits == 2

\* Length of the response texts that are parsed.
MaxLen == 4

\* ------------------------------------------------------- program constants
\* route.ts:60 is 10; the scheduler is parametric in it and the model runs it
\* scaled down so that the limit binds with NumItems WorkItems.
CONCURRENCY_LIMIT == 2

\* route.ts:245, default of the parameter `retries`.
Retries == 3

Items == 1 .. NumItems

\* The generation id of the modelled session and an id no session uses.
Gid == "g1"
GenIds == {"g1", "g2"}

\* Failures a model call (or the iteration of its stream) can raise.
ErrKinds == {"transient", "ratelimit"}

\* What the accumulated responseContent can be when the stream ends: empty,
\* text without a parsable {...} span, text with one.
Contents == {"empty", "nojson", "json"}

VARIABLES
    generationStore,  \* id -> GenRecord, a partial map (route.ts:11)
    spc,              \* position of start(): "reading", "running", "ended"
    chan,             \* SSE controller: "open" or "closed"
    tpc,              \* position of each task
    attempt,          \* retry(): the loop variable of each task
    errs,             \* the errors retry() and the task have caught, in order
    response,         \* responseContent of each task whose stream has ended
    log,              \* the events each task has enqueued, in order
    sessLog,          \* the events start() itself has enqueued, in order
    allResults,       \* keys of the ResultMap (route.ts:142)
    doneMap,          \* the payload of each done event, in order
    aborted,          \* registered controllers on which abort() was called
    lingering,        \* issued model calls abandoned by a timeout, not settled
    faults,           \* failed model calls and stream reads so far
    hasBench,         \* schema input: the WorkItems that carry benchMarkAns
    clientCancel,     \* the client has canceled the session when it was not yet
    lastCall,         \* the registry function called last, with id and result
    parsedSchemaGuide,  \* the parsed schema: its units and their keys, in order
    totalApiCallCount,  \* route.ts:146, the calls planned
    tasks,              \* route.ts:153, the (unitCode, key) of each task, in order
    responseContent,  \* route.ts:276, the text a stream has delivered
    sent,             \* the events the task has enqueued since its stream ended
    recorded,         \* the task has written its entry of allResults
    written,          \* the events sendSseMessage has enqueued, in order
    closed,           \* TRUE once the route has closed the stream
    wire,             \* what was enqueued and the client has not yet read
    buffer,           \* the reader loop's buffer: the frame not yet complete
    dispatched,       \* the (event type, payload) pairs the loop has handled
    reader,           \* "reading", "canceled" (reader.cancel()), "ended",
                      \* "stopped" (the fetch was aborted)
    accumulatedResults,  \* the results of the completed events, by question
    generatedReport,  \* {} while null, {r} once set to the report r
    downloaded,       \* TRUE once onDownload has sent a report to fill-doc
    masterSchema,     \* fill-doc: the questions of each unit of schema.json
    aiAnswers,        \* fill-doc: what the answers hold, by unit and question
    transformedData,  \* fill-doc: the flat map handed to the template
    peer,             \* another session under the same generation id:
                      \* "absent", "running", "silent" (ended without
                      \* done), "done"
    evalState,        \* CHC33021: the instructions, parsedAiJson and
                      \* formattedEvaluation of one task
    seqState          \* sequential route: the retry loop of one WorkItem

vars == <<generationStore, spc, chan, tpc, attempt, errs, response, log,
          sessLog, allResults, doneMap, aborted, lingering, faults, hasBench,
          clientCancel, lastCall, parsedSchemaGuide, totalApiCallCount, tasks,
          responseContent, sent, recorded,
          written, closed, wire, buffer, dispatched, reader,
          accumulatedResults, generatedReport, downloaded,
          masterSchema, aiAnswers, transformedData,
          peer, evalState, seqState>>

\* What start() alone writes, and what no task writes.
startVars == <<spc, sessLog, doneMap>>

\* The state of the functions that are followed on their own, which the
\* session and the registry leave alone.
enumVars == <<parsedSchemaGuide, totalApiCallCount, tasks>>
parseVars == <<responseContent, sent, recorded>>
clientVars == <<written, closed, wire, buffer, dispatched, reader,
                accumulatedResults, generatedReport, downloaded>>
fillVars == <<masterSchema, aiAnswers, transformedData>>
peerVars == <<peer>>
evalVars == <<evalState>>
seqVars == <<seqState>>
otherVars == <<enumVars, parseVars, clientVars, fillVars, peerVars,
               evalVars, seqVars>>

envVars == <<lingering, hasBench, clientCancel, lastCall, otherVars>>

\* ------------------------------------------------- cancellation registry
NewRecord == [canceled |-> FALSE, controllers |-> {}]

HasRecord(store, id) == id \in DOMAIN store

Put(store, id, rec) ==
    [k \in DOMAIN store \cup {id} |-> IF k = id THEN rec ELSE store[k]]

\* A getOrCreateGen that always stores a new record.
getOrCreateGenFresh(store, id) == Put(store, id, NewRecord)

getOrCreateGen(store, id) ==
    IF HasRecord(store, id) THEN store ELSE Put(store, id, NewRecord)

registerController(store, id, ctrl) ==
    LET s == getOrCreateGen(store, id)
    IN  Put(s, id, [s[id] EXCEPT !.controllers = @ \cup {ctrl}])

\* cancelGeneration without the assignment of the flag.
cancelGenerationNoFlag(store, id) == store

cancelGeneration(store, id) ==
    IF HasRecord(store, id)
    THEN Put(store, id, [store[id] EXCEPT !.canceled = TRUE])
    ELSE store

\* isCanceled reading a field the record does not have.
isCanceledNever(store, id) == FALSE

isCanceled(store, id) == HasRecord(store, id) /\ store[id].canceled

\* A clearGeneration that deletes nothing.
clearGenerationKeep(store, id) == store

clearGeneration(store, id) == [k \in DOMAIN store \ {id} |-> store[k]]

\* A cancelGeneration that sets the flag and aborts nothing.
abortNone(store, id, ab) == ab

\* route.ts:28-30, `for (const c of rec.controllers) c.abort()`: the controllers
\* abort() has been called on once cancelGeneration(id) has run.
abortAll(store, id, ab) ==
    IF HasRecord(store, id) THEN ab \cup store[id].controllers ELSE ab

\* A finally block that stores a new record without the controller.
removeControllerReset(store, id, ctrl) ==
    IF HasRecord(store, id)
    THEN Put(store, id, [canceled |-> FALSE,
                         controllers |-> store[id].controllers \ {ctrl}])
    ELSE store

\* The finally block of a task: rec.controllers.delete(callAbort).
removeController(store, id, ctrl) ==
    IF HasRecord(store, id)
    THEN Put(store, id, [store[id] EXCEPT !.controllers = @ \ {ctrl}])
    ELSE store

\* ------------------------------------------------------------ SSE channel
\* controller.enqueue throws once controller.close() has been called.
CanEnqueue(c) == c = "open"

\* An emitter that writes every event as an error.
EvAlwaysError(type) == <<"error", 0>>

\* An event as sendSseMessage writes it: its type and, for retry, the attempt.
Ev(type) == <<type, 0>>

\* The retry event carrying the number of the attempt that failed.
RetryEvSameAttempt(n) == <<"retry", n - 1>>

RetryEv(n) == <<"retry", n>>

\* ------------------------------------------------------------- scheduler
Settled(t) == tpc[t] = "settled"
Active == {t \in Items : tpc[t] \in {"calling", "delay", "streaming"}}
Queue == {t \in Items : tpc[t] = "queued"}

\* A limiter that compares with <= and so runs one function too many.
HasFreeSlotOffByOne(n) == n <= CONCURRENCY_LIMIT

\* p-limit starts the head of its FIFO queue while fewer than `concurrency`
\* of the functions it started are unsettled.
HasFreeSlot(n) == n < CONCURRENCY_LIMIT

CanAdmit(t) ==
    /\ spc = "running"
    /\ tpc[t] = "queued"
    /\ \A u \in Queue : t <= u
    /\ HasFreeSlot(Cardinality(Active))

\* The environment may fail a model call or stream read of task t.
MayFail(t) ==
    \/ faults < MaxFaults
    \/ faults < Retries /\ Len(errs[t]) = faults

\* Model calls of the session that have been issued and have not settled.
InFlight ==
    Cardinality({t \in Items : tpc[t] \in {"calling", "streaming"}}) + lingering

\* The functions followed on their own have been given nothing.
EnumAtRest ==
    /\ parsedSchemaGuide = << >>
    /\ totalApiCallCount = 0
    /\ tasks = << >>

ParseAtRest ==
    /\ responseContent = << >>
    /\ sent = << >>
    /\ recorded = FALSE

ClientAtRest ==
    /\ written = << >>
    /\ closed = FALSE
    /\ wire = << >>
    /\ buffer = << >>
    /\ dispatched = << >>
    /\ reader = "reading"
    /\ accumulatedResults = {}
    /\ generatedReport = {}
    /\ downloaded = FALSE

FillAtRest ==
    /\ masterSchema = << >>
    /\ aiAnswers = << >>
    /\ transformedData = << >>

PeerAtRest ==
    /\ peer = "absent"

EvalAtRest ==
    /\ evalState = << >>

SeqAtRest ==
    /\ seqState = << >>

OthersAtRest ==
    /\ EnumAtRest /\ ParseAtRest /\ ClientAtRest /\ FillAtRest /\ PeerAtRest
    /\ EvalAtRest
    /\ SeqAtRest

\* No registry function has been called on its own yet.
NoCall == <<"none", "", FALSE>>

Init ==
    /\ generationStore = getOrCreateGen(<< >>, Gid)
    /\ spc = "reading"
    /\ chan = "open"
    /\ tpc = [t \in Items |-> "queued"]
    /\ attempt = [t \in Items |-> 0]
    /\ errs = [t \in Items |-> << >>]
    /\ response = [t \in Items |-> "none"]
    /\ log = [t \in Items |-> << >>]
    /\ sessLog = << >>
    /\ allResults = {}
    /\ doneMap = << >>
    /\ aborted = {}
    /\ lingering = 0
    /\ faults = 0
    /\ hasBench \in [Items -> BOOLEAN]
    /\ clientCancel = FALSE
    /\ lastCall = NoCall
    /\ OthersAtRest

\* ------------------------------------------------------------------ tasks
\* A 429 test that matches every error.
IsRateLimitAnyError(kind) == TRUE

\* route.ts:343, the test that makes a caught error fatal.
IsRateLimit(kind) == kind = "ratelimit"

\* A retry loop that gives up one attempt early.
LastAttemptEarly(a) == a >= Retries - 1

\* route.ts:253, the test that ends the retry loop.
LastAttempt(a) == a = Retries

\* A retry() that keeps and throws the first error it caught.
ThrownFirst(t, kind) == IF errs[t] = << >> THEN kind ELSE errs[t][1]

\* route.ts:253, `throw err`: the error retry() throws is the one its last
\* attempt raised.
Thrown(t, kind) == kind

\* A catch block that ends every failed task quietly.
QuietStopAlways(kind, store) == TRUE

\* route.ts:338, the test that makes the catch block end the task quietly.
QuietStop(kind, store) == kind = "ClientCanceled" \/ isCanceled(store, Gid)

\* route.ts:336-356.  The catch and finally blocks of a task that caught an
\* error of the given kind.  A fatal error is reported, the channel closed and
\* the generation canceled; an enqueue on a closed channel throws out of the
\* catch block, past everything but the finally block.  ab is the set of
\* aborted controllers as the step has left it before the catch; the task's
\* own controller is dropped with its removal from the record.
TaskCatch(t, kind, ab) ==
    /\ tpc' = [tpc EXCEPT ![t] = "settled"]
    /\ IF QuietStop(kind, generationStore) \/ ~CanEnqueue(chan)
       THEN /\ generationStore' = removeController(generationStore, Gid, t)
            /\ aborted' = ab \ {t}
            /\ UNCHANGED <<log, chan>>
       ELSE IF IsRateLimit(kind)
       THEN /\ log' = [log EXCEPT ![t] = Append(@, Ev("fatal_error"))]
            /\ chan' = "closed"
            /\ generationStore' =
                   removeController(cancelGeneration(generationStore, Gid), Gid, t)
            /\ aborted' = abortAll(generationStore, Gid, ab) \ {t}
       ELSE /\ log' = [log EXCEPT ![t] = Append(@, Ev("error"))]
            /\ generationStore' = removeController(generationStore, Gid, t)
            /\ aborted' = ab \ {t}
            /\ UNCHANGED chan

\* route.ts:159-230 and 262-274.  p-limit starts the task: it returns at once
\* when the generation is canceled, reports processing (an enqueue that throws
\* here rejects the task), skips a WorkItem without benchMarkAns
\* (createDynamicJsonSchemaCHC43121 returns null exactly then), registers its
\* controller and issues attempt 1.
Admit(t) ==
    /\ CanAdmit(t)
    /\ IF isCanceled(generationStore, Gid) \/ ~CanEnqueue(chan)
       THEN /\ tpc' = [tpc EXCEPT ![t] = "settled"]
            /\ UNCHANGED <<log, generationStore, attempt>>
       ELSE IF ~hasBench[t]
       THEN /\ tpc' = [tpc EXCEPT ![t] = "settled"]
            /\ log' = [log EXCEPT ![t] = <<Ev("processing"), Ev("error")>>]
            /\ UNCHANGED <<generationStore, attempt>>
       ELSE /\ tpc' = [tpc EXCEPT ![t] = "calling"]
            /\ log' = [log EXCEPT ![t] = <<Ev("processing")>>]
            /\ generationStore' = registerController(generationStore, Gid, t)
            /\ attempt' = [attempt EXCEPT ![t] = 1]
    /\ UNCHANGED <<chan, errs, response, allResults, aborted, faults, startVars,
                   envVars>>

\* route.ts:251.  generateContentStream resolves before the timer: retry()
\* returns the stream and the task starts reading it.
CallReturns(t) ==
    /\ tpc[t] = "calling"
    /\ tpc' = [tpc EXCEPT ![t] = "streaming"]
    /\ UNCHANGED <<generationStore, chan, attempt, errs, response, log,
                   allResults, aborted, faults, startVars, envVars>>

\* route.ts:252-257.  The catch block of retry(): the last attempt's error is
\* thrown to the task, an earlier one is followed by the fixed delay.
AttemptFails(t, kind, ab) ==
    /\ errs' = [errs EXCEPT ![t] = Append(@, kind)]
    /\ IF LastAttempt(attempt[t])
       THEN TaskCatch(t, Thrown(t, kind), ab)
       ELSE /\ tpc' = [tpc EXCEPT ![t] = "delay"]
            /\ aborted' = ab
            /\ UNCHANGED <<log, chan, generationStore>>

\* The model call of the current attempt rejects.
CallFails(t, kind) ==
    /\ tpc[t] = "calling"
    /\ MayFail(t)
    /\ faults' = faults + 1
    /\ AttemptFails(t, kind, aborted)
    /\ UNCHANGED <<attempt, response, allResults, startVars, envVars>>

\* route.ts:235-243 and 271-272.  The attempt's timer fires first: it calls
\* callAbort.abort() and rejects the race, which retry() takes as a failed
\* attempt.  The call itself is only asked to stop.
TimerFires(t) ==
    /\ tpc[t] = "calling"
    /\ MayFail(t)
    /\ faults' = faults + 1
    /\ AttemptFails(t, "transient", aborted \cup {t})
    /\ UNCHANGED <<attempt, response, allResults, startVars, hasBench,
                   clientCancel, lastCall, otherVars>>

Timeout(t) ==
    /\ TimerFires(t)
    /\ UNCHANGED lingering

\* The same step with the model calls instrumented: the abandoned call stays
\* in flight until it settles.
TimeoutCounted(t) ==
    /\ TimerFires(t)
    /\ lingering' = lingering + 1

\* A call abandoned by a timeout settles.
LingeringSettles ==
    /\ lingering > 0
    /\ lingering' = lingering - 1
    /\ UNCHANGED <<generationStore, chan, tpc, attempt, errs, response, log,
                   allResults, aborted, faults, startVars, hasBench,
                   clientCancel, lastCall, otherVars>>

\* route.ts:246-251 and 255.  The delay is over: the next attempt reports
\* retry and issues its call.  The enqueue is inside retry's try block, so on
\* a closed channel it is caught as that attempt's failure.
DelayElapses(t) ==
    /\ tpc[t] = "delay"
    /\ attempt' = [attempt EXCEPT ![t] = @ + 1]
    /\ IF CanEnqueue(chan)
       THEN /\ log' = [log EXCEPT ![t] = Append(@, RetryEv(attempt[t] + 1))]
            /\ tpc' = [tpc EXCEPT ![t] = "calling"]
            /\ UNCHANGED <<errs, chan, generationStore, aborted>>
       ELSE /\ errs' = [errs EXCEPT ![t] = Append(@, "enqueue")]
            /\ IF LastAttempt(attempt[t] + 1)
               THEN TaskCatch(t, "enqueue", aborted)
               ELSE UNCHANGED <<tpc, log, chan, generationStore, aborted>>
    /\ UNCHANGED <<response, allResults, faults, startVars, envVars>>

\* route.ts:283-290.  A chunk arrives: a canceled generation aborts the call
\* and throws ClientCanceled, otherwise the text is appended to the local
\* responseContent, whose final value StreamEnds draws.
StreamChunk(t) ==
    /\ tpc[t] = "streaming"
    /\ IF isCanceled(generationStore, Gid)
       THEN TaskCatch(t, "ClientCanceled", aborted \cup {t})
       ELSE UNCHANGED <<tpc, log, chan, generationStore, aborted>>
    /\ UNCHANGED <<attempt, errs, response, allResults, faults, startVars,
                   envVars>>

\* route.ts:283.  The iteration of the stream throws.
StreamFails(t, kind) ==
    /\ tpc[t] = "streaming"
    /\ MayFail(t)
    /\ faults' = faults + 1
    /\ errs' = [errs EXCEPT ![t] = Append(@, kind)]
    /\ TaskCatch(t, kind, aborted)
    /\ UNCHANGED <<attempt, response, allResults, startVars, envVars>>

\* route.ts:300-322.  The text is not empty, has a first '{' before a last
\* '}' and the span between them parses.
Parses(c) == c = "json"

\* A write that replaces the map instead of adding the entry.
RecordOnly(results, t) == {t}

\* route.ts:331-332.  allResults[unitCode][mainQuestionKey] = result.
Record(results, t) == results \cup {t}

\* route.ts:292-334.  The stream ends with the text c accumulated (the loop
\* exits without a look at the canceled flag): token_usage, then an error for
\* an empty or unparsable text, otherwise the result is recorded and
\* completed reported.
StreamEnds(t, c) ==
    /\ tpc[t] = "streaming"
    /\ response' = [response EXCEPT ![t] = c]
    /\ IF ~CanEnqueue(chan)
       THEN /\ TaskCatch(t, "enqueue", aborted)
            /\ UNCHANGED allResults
       ELSE /\ tpc' = [tpc EXCEPT ![t] = "settled"]
            /\ generationStore' = removeController(generationStore, Gid, t)
            /\ aborted' = aborted \ {t}
            /\ UNCHANGED chan
            /\ IF Parses(c)
               THEN /\ allResults' = Record(allResults, t)
                    /\ log' = [log EXCEPT ![t] =
                                  @ \o <<Ev("token_usage"), Ev("completed")>>]
               ELSE /\ allResults' = allResults
                    /\ log' = [log EXCEPT ![t] =
                                  @ \o <<Ev("token_usage"), Ev("error")>>]
    /\ UNCHANGED <<attempt, errs, faults, startVars, envVars>>

\* ---------------------------------------------------------------- session
\* route.ts:130-136.  readFileContent returned "": error, close, clear.
SchemaUnreadable ==
    /\ spc = "reading"
    /\ spc' = "ended"
    /\ sessLog' = Append(sessLog, Ev("error"))
    /\ chan' = "closed"
    /\ generationStore' = clearGeneration(generationStore, Gid)
    /\ UNCHANGED <<tpc, attempt, errs, response, log, allResults, doneMap,
                   aborted, faults, envVars>>

\* route.ts:138 and 378-387.  JSON.parse throws into the outer catch.
SchemaInvalid ==
    /\ spc = "reading"
    /\ spc' = "ended"
    /\ sessLog' = IF isCanceled(generationStore, Gid)
                  THEN sessLog ELSE Append(sessLog, Ev("error"))
    /\ chan' = "closed"
    /\ generationStore' = clearGeneration(generationStore, Gid)
    /\ UNCHANGED <<tpc, attempt, errs, response, log, allResults, doneMap,
                   aborted, faults, envVars>>

\* route.ts:138-159.  The schema is parsed and every task handed to p-limit.
SchemaLoaded ==
    /\ spc = "reading"
    /\ spc' = "running"
    /\ UNCHANGED <<generationStore, chan, tpc, attempt, errs, response, log,
                   sessLog, allResults, doneMap, aborted, faults, envVars>>

\* A wait that never resolves.
AllSettledNever == FALSE

\* A wait that resolves with the first task to settle.
AnySettled == \E t \in Items : Settled(t)

\* route.ts:362.  Promise.allSettled(tasks) resolves.
AllSettled == \A t \in Items : Settled(t)

\* route.ts:362-387.  The end of start(): a canceled generation closes
\* silently, otherwise done carries allResults.  An enqueue of done on a
\* closed channel throws into the outer catch, whose own enqueue throws out
\* of start() before clearGeneration.
Finish ==
    /\ spc = "running"
    /\ AllSettled
    /\ spc' = "ended"
    /\ chan' = "closed"
    /\ IF isCanceled(generationStore, Gid)
       THEN /\ generationStore' = clearGeneration(generationStore, Gid)
            /\ UNCHANGED <<sessLog, doneMap>>
       ELSE IF CanEnqueue(chan)
       THEN /\ sessLog' = Append(sessLog, Ev("done"))
            /\ doneMap' = Append(doneMap, allResults)
            /\ generationStore' = clearGeneration(generationStore, Gid)
       ELSE UNCHANGED <<sessLog, doneMap, generationStore>>
    /\ UNCHANGED <<tpc, attempt, errs, response, log, allResults, aborted,
                   faults, envVars>>

\* route.ts:118-120 and 395-414.  The client cancels (DELETE, or the request
\* is aborted): cancelGeneration(id), a no-op for an id without a record.
Cancel(id) ==
    /\ generationStore' = cancelGeneration(generationStore, id)
    /\ aborted' = abortAll(generationStore, id, aborted)
    /\ clientCancel' = (clientCancel \/ (id = Gid /\ HasRecord(generationStore, id)
                                           /\ ~generationStore[id].canceled))
    /\ UNCHANGED <<chan, tpc, attempt, errs, response, log, allResults, faults,
                   startVars, lingering, hasBench, lastCall, otherVars>>

Step ==
    \/ \E t \in Items : Admit(t)
    \/ \E t \in Items : CallReturns(t)
    \/ \E t \in Items, k \in ErrKinds : CallFails(t, k)
    \/ \E t \in Items : DelayElapses(t)
    \/ \E t \in Items : StreamChunk(t)
    \/ \E t \in Items, k \in ErrKinds : StreamFails(t, k)
    \/ \E t \in Items, c \in Contents : StreamEnds(t, c)
    \/ SchemaUnreadable
    \/ SchemaInvalid
    \/ SchemaLoaded
    \/ Finish
    \/ \E id \in GenIds : Cancel(id)

Next == Step \/ \E t \in Items : Timeout(t)

Spec == Init /\ [][Next]_vars

\* The schemas of the sessions followed to their end: every WorkItem carries
\* benchMarkAns, or all but the first one do.
InitLive ==
    /\ Init
    /\ \A t \in Items : t > 1 => hasBench[t]

\* The session with its model calls counted from issue to settling.
NextCalls == Step \/ (\E t \in Items : TimeoutCounted(t)) \/ LingeringSettles

SpecCalls == InitLive /\ [][NextCalls]_vars

\* ------------------------------------------------------ the registry alone
\* The functions of the cancellation store called in any order with any id,
\* as POST, the tasks and DELETE of any number of sessions call them.  A
\* controller is an AbortController object: it is registered once, under one
\* id, and is out of reach once it is removed or its record deleted.
sessionVars == <<spc, chan, tpc, attempt, errs, response, log, sessLog,
                 allResults, doneMap, lingering, faults, hasBench, clientCancel,
                 otherVars>>

\* Every controller some record holds.
Registered(store) == UNION {store[id].controllers : id \in DOMAIN store}

\* No session has been started.
NoSession ==
    /\ spc = "reading"
    /\ chan = "open"
    /\ tpc = [t \in Items |-> "queued"]
    /\ attempt = [t \in Items |-> 0]
    /\ errs = [t \in Items |-> << >>]
    /\ response = [t \in Items |-> "none"]
    /\ log = [t \in Items |-> << >>]
    /\ sessLog = << >>
    /\ allResults = {}
    /\ doneMap = << >>
    /\ lingering = 0
    /\ faults = 0
    /\ hasBench = [t \in Items |-> TRUE]
    /\ clientCancel = FALSE

\* route.ts:11, `new Map()`: the store of a module that was just loaded, and
\* no session started.
NoProgram ==
    /\ generationStore = << >>
    /\ aborted = {}
    /\ lastCall = NoCall
    /\ NoSession

\* The state of the session and of the registry.
programVars == <<generationStore, aborted, lastCall, spc, chan, tpc, attempt,
                 errs, response, log, sessLog, allResults, doneMap, lingering,
                 faults, hasBench, clientCancel>>

RegInit ==
    /\ NoProgram
    /\ OthersAtRest

\* route.ts:13-19 called from POST (route.ts:116).
CallGetOrCreateGen(id) ==
    /\ generationStore' = getOrCreateGen(generationStore, id)
    /\ lastCall' = <<"getOrCreateGen", id, FALSE>>
    /\ UNCHANGED <<aborted, sessionVars>>

\* route.ts:20-23 called by a task with the controller it has just made.
CallRegisterController(id, c) ==
    /\ c \notin Registered(generationStore)
    /\ generationStore' = registerController(generationStore, id, c)
    /\ lastCall' = <<"registerController", id, FALSE>>
    /\ UNCHANGED <<aborted, sessionVars>>

\* route.ts:352-356, the finally block of the task that registered c.
CallRemoveController(id, c) ==
    /\ HasRecord(generationStore, id)
    /\ c \in generationStore[id].controllers
    /\ generationStore' = removeController(generationStore, id, c)
    /\ aborted' = aborted \ {c}
    /\ lastCall' = <<"removeController", id, FALSE>>
    /\ UNCHANGED sessionVars

\* route.ts:24-31.
CallCancelGeneration(id) ==
    /\ generationStore' = cancelGeneration(generationStore, id)
    /\ aborted' = abortAll(generationStore, id, aborted)
    /\ lastCall' = <<"cancelGeneration", id, FALSE>>
    /\ UNCHANGED sessionVars

\* route.ts:32-35.
CallIsCanceled(id) ==
    /\ lastCall' = <<"isCanceled", id, isCanceled(generationStore, id)>>
    /\ UNCHANGED <<generationStore, aborted, sessionVars>>

\* route.ts:36-38.  The controllers of the deleted record are out of reach.
CallClearGeneration(id) ==
    /\ generationStore' = clearGeneration(generationStore, id)
    /\ aborted' = IF HasRecord(generationStore, id)
                  THEN aborted \ generationStore[id].controllers ELSE aborted
    /\ lastCall' = <<"clearGeneration", id, FALSE>>
    /\ UNCHANGED sessionVars

\* route.ts:395-414.  DELETE with the id of its body or header, "" when it
\* has neither: 400 without a call, otherwise cancelGeneration(id) and ok.
Delete(id) ==
    /\ IF id = ""
       THEN UNCHANGED <<generationStore, aborted>>
       ELSE /\ generationStore' = cancelGeneration(generationStore, id)
            /\ aborted' = abortAll(generationStore, id, aborted)
    /\ lastCall' = <<"DELETE", id, id # "">>
    /\ UNCHANGED sessionVars

RegNext ==
    \/ \E id \in GenIds : CallGetOrCreateGen(id)
    \/ \E id \in GenIds, c \in Items : CallRegisterController(id, c)
    \/ \E id \in GenIds, c \in Items : CallRemoveController(id, c)
    \/ \E id \in GenIds : CallCancelGeneration(id)
    \/ \E id \in GenIds : CallIsCanceled(id)
    \/ \E id \in GenIds : CallClearGeneration(id)
    \/ \E id \in GenIds \cup {""} : Delete(id)

SpecRegistry == RegInit /\ [][RegNext]_vars

\* ------------------------------------------------------------- type check
TypeOK ==
    /\ DOMAIN generationStore \subseteq GenIds
    /\ spc \in {"reading", "running", "ended"}
    /\ chan \in {"open", "closed"}
    /\ tpc \in [Items -> {"queued", "calling", "delay", "streaming", "settled"}]
    /\ attempt \in [Items -> 0 .. Retries]
    /\ response \in [Items -> Contents \cup {"none"}]
    /\ allResults \subseteq Items
    /\ aborted \subseteq Items
    /\ lingering \in 0 .. MaxFaults + Retries
    /\ faults \in 0 .. MaxFaults + Retries
    /\ lastCall[1] \in {"none", "getOrCreateGen", "registerController",
                       "removeController", "cancelGeneration", "isCanceled",
                       "clearGeneration", "DELETE"}

\* ------------------------------------------------------ reading the events
Has(seq, x) == \E i \in 1 .. Len(seq) : seq[i] = x

Count(seq, x) == Cardinality({i \in 1 .. Len(seq) : seq[i] = x})

\* The events of a task other than processing and token_usage.
Outcome(t) ==
    SelectSeq(log[t], LAMBDA e : e[1] \in {"retry", "completed", "error", "fatal_error"})

FatalSent == \E t \in Items : Has(log[t], Ev("fatal_error"))

DoneCount == Len(doneMap)

\* The session was never canceled, by the client or by a fatal error.
NeverCanceled == ~clientCancel /\ ~FatalSent

\* ------------------------------------------------------------------ claims

\* C1: at no instant are more than CONCURRENCY_LIMIT tasks of the session
\* between their admission by the limiter and their settling, whatever the
\* number of WorkItems, the retries, the failures and the cancellations.
C1_AtMostLimitTasksRunning == Cardinality(Active) <= CONCURRENCY_LIMIT

\* The limit binds: it is reached with a task waiting, one of the running
\* tasks being in a retry and the session canceled.
C1_Witness ==
    /\ Cardinality(Active) = CONCURRENCY_LIMIT
    /\ Queue # {}
    /\ \E t \in Active : attempt[t] > 1
    /\ isCanceled(generationStore, Gid)

\* C2: at no instant are more than CONCURRENCY_LIMIT model calls of the
\* session in flight, a call being in flight from its issue until it settles,
\* also after its attempt timed out.
C2_AtMostLimitCallsInFlight == InFlight <= CONCURRENCY_LIMIT

\* C3: when a model-call attempt of a task fails with a rate-limit failure in
\* a session that is not canceled, the session reports a fatal error and ends
\* without done, and no processing event follows the fatal error.
C3_EndsFatal ==
    (spc = "ended" /\ ~clientCancel /\ \E t \in Items : Has(errs[t], "ratelimit"))
        => (FatalSent /\ DoneCount = 0)

C3_NoProcessingAfterFatal ==
    FatalSent => \A t \in Items :
        Count(log'[t], Ev("processing")) = Count(log[t], Ev("processing"))

C3_AnyRateLimitIsFatal == [](C3_EndsFatal) /\ [][C3_NoProcessingAfterFatal]_vars


\* C4: once a cancel has taken effect on the running session, a task that
\* starts afterwards enqueues no event and issues no model call (and a task
\* that has ended does neither later), and the session ends with the channel
\* closed and no done.
C4_QueuedTasksStaySilent ==
    (clientCancel \/ FatalSent) => \A t \in Items : tpc[t] = "queued" =>
        /\ tpc'[t] \in {"queued", "settled"}
        /\ log'[t] = << >>
        /\ attempt'[t] = 0

C4_EndedTasksStaySilent ==
    \A t \in Items : Settled(t) => (log'[t] = log[t] /\ attempt'[t] = attempt[t])

C4_ClosesWithoutDone ==
    (clientCancel /\ spc = "ended") => (DoneCount = 0 /\ chan = "closed")

ErrorSent ==
    \/ Has(sessLog, Ev("error"))
    \/ \E t \in Items : Has(log[t], Ev("error")) \/ Has(log[t], Ev("fatal_error"))

C6_Step ==
    /\ DoneCount' > DoneCount => \A t \in Items : tpc[t] = "settled"
    /\ DoneCount >= 1 => sessLog' = sessLog
    /\ (DoneCount >= 1 \/ chan = "closed") => (log' = log /\ allResults' = allResults)

C6_NothingAfterDone == [][C6_Step]_vars

\* done was sent by a session in which one WorkItem completed after a retry
\* and another one failed.
C6_Witness ==
    /\ DoneCount = 1
    /\ \E t \in Items : Has(log[t], Ev("completed")) /\ Has(log[t], <<"retry", 2>>)
    /\ \E t \in Items : Has(log[t], Ev("error"))

\* Every model call that was issued succeeded and its stream delivered a
\* parsable text.
AllCallsSucceed ==
    \A t \in Items : errs[t] = << >> /\ response[t] \notin {"empty", "nojson"}

\* C7 as claimed: if every model call of an uncanceled session succeeds with
\* a parsable response, the ResultMap of done has exactly the enumerated
\* WorkItems as its keys.
C7_AllCallsSucceedAllKeys ==
    (DoneCount = 1 /\ AllCallsSucceed) => doneMap[1] = Items

\* C7 amended: the same for a schema in which every WorkItem carries
\* benchMarkAns.
C7_AllCallsSucceedAllKeysWithBench ==
    (DoneCount = 1 /\ AllCallsSucceed /\ \A t \in Items : hasBench[t])
        => doneMap[1] = Items

C7_Witness ==
    /\ DoneCount = 1
    /\ AllCallsSucceed
    /\ \A t \in Items : hasBench[t] /\ response[t] = "json"

\* The WorkItem ended in a failure of its own: no benchMarkAns, an empty or
\* unparsable text, or a model call or stream read that failed for good.
NonFatalFailure(t) ==
    \/ ~hasBench[t]
    \/ response[t] \in {"empty", "nojson"}
    \/ attempt[t] > 0 /\ Len(errs[t]) >= attempt[t]

\* C8: a session that ran its tasks, was never canceled and saw no rate-limit
\* failure ends with done; its ResultMap holds exactly the WorkItems that did
\* not fail, and exactly the failed ones have an error event, one each.
C8_FailuresStayLocal ==
    (/\ spc = "ended"
     /\ \A t \in Items : Settled(t)
     /\ ~clientCancel
     /\ \A t \in Items : ~Has(errs[t], "ratelimit"))
    => /\ DoneCount = 1
       /\ doneMap[1] = {t \in Items : ~NonFatalFailure(t)}
       /\ Cardinality(doneMap[1]) =
              NumItems - Cardinality({t \in Items : NonFatalFailure(t)})
       /\ \A t \in Items :
              /\ Count(log[t], Ev("error")) = IF NonFatalFailure(t) THEN 1 ELSE 0
              /\ ~Has(log[t], Ev("fatal_error"))

\* Such a session with a WorkItem that used up its attempts, another one with
\* an unparsable text, and one that completed.
C8_Witness ==
    /\ spc = "ended"
    /\ ~clientCancel
    /\ DoneCount = 1
    /\ \E t \in Items : Len(errs[t]) = Retries
    /\ \E t \in Items : response[t] = "nojson"
    /\ doneMap[1] # {}

\* The first attempt[t] - 1 attempts of t threw a transient error, the last
\* one returned and its stream delivered a parsable text.
SucceededAfterTransients(t) ==
    /\ Settled(t)
    /\ attempt[t] > 0
    /\ Len(errs[t]) = attempt[t] - 1
    /\ \A i \in 1 .. Len(errs[t]) : errs[t][i] = "transient"
    /\ response[t] = "json"

\* C9: in a session that is not canceled, a task whose first k < 3 attempts
\* throw a transient error and whose next attempt succeeds with a parsable
\* response has enqueued, besides processing and token_usage, exactly the
\* retry events 2 .. k+1 and then completed.
C9_RetriesThenCompleted ==
    \A t \in Items : (NeverCanceled /\ SucceededAfterTransients(t)) =>
        Outcome(t) = [i \in 1 .. attempt[t] - 1 |-> <<"retry", i + 1>>]
                         \o <<Ev("completed")>>

C9_Witness ==
    /\ NeverCanceled
    /\ \E t \in Items : SucceededAfterTransients(t) /\ attempt[t] = Retries

\* Some other task has reported a fatal error.
FatalElsewhere(t) == \E u \in Items \ {t} : Has(log[u], Ev("fatal_error"))

\* C10: no task makes more than 3 attempts or reports more than 2 retries;
\* the task whose third attempt has failed reports a fatal error only if that
\* third failure is a rate-limit one and a plain error only if it is not, and
\* reports one of the two unless the session is canceled.
C10_LastErrorClassified ==
    \A t \in Items :
        /\ attempt[t] <= Retries
        /\ Cardinality({i \in 1 .. Len(log[t]) : log[t][i][1] = "retry"}) <= Retries - 1
        /\ (/\ Settled(t)
            /\ attempt[t] = Retries
            /\ Len(errs[t]) = Retries
            /\ \A i \in 1 .. Retries : errs[t][i] \in ErrKinds)
           => /\ Has(log[t], Ev("fatal_error")) => errs[t][Retries] = "ratelimit"
              /\ Has(log[t], Ev("error")) => errs[t][Retries] # "ratelimit"
              /\ (~clientCancel /\ ~FatalElsewhere(t)) =>
                     Outcome(t) = << <<"retry", 2>>, <<"retry", 3>>,
                                     IF errs[t][Retries] = "ratelimit"
                                     THEN Ev("fatal_error") ELSE Ev("error") >>

\* A task whose first attempt hit the rate limit and whose third failed
\* otherwise: it reports a plain error.
C10_Witness ==
    \E t \in Items :
        /\ Settled(t)
        /\ errs[t] = <<"ratelimit", "transient", "transient">>
        /\ Has(log[t], Ev("error"))

\* The number of retry events a task has enqueued.
RetryCount(seq) == Cardinality({i \in 1 .. Len(seq) : seq[i][1] = "retry"})

\* C11: once the session is canceled, a task inside the retry wrapper enqueues
\* no retry event, begins no inter-attempt delay and starts no new attempt.
C11_Step ==
    (clientCancel \/ FatalSent) => \A t \in Items :
        /\ RetryCount(log'[t]) = RetryCount(log[t])
        /\ attempt'[t] = attempt[t]
        /\ tpc'[t] = "delay" => tpc[t] = "delay"

C11_NoRetryAfterCancel == [][C11_Step]_vars

\* The step is the firing of the timer of t's current attempt: the call it
\* abandons stays behind and the attempt has failed.
TimerFired(t) ==
    /\ lingering' = lingering + 1
    /\ tpc[t] = "calling"
    /\ Len(errs'[t]) = Len(errs[t]) + 1

\* C12: an attempt whose timer fires has its controller aborted and is a
\* failed attempt like any other: before the third attempt the task enters
\* the delay without an event, and the delay is followed by a retry event and
\* the next attempt; the third attempt's timeout ends the task with a plain
\* error unless the session is canceled.
C12_Step ==
    \A t \in Items :
        /\ TimerFired(t) =>
              /\ t \in aborted' \/ tpc'[t] = "settled"
              /\ attempt'[t] = attempt[t]
              /\ IF attempt[t] < Retries
                 THEN tpc'[t] = "delay" /\ log'[t] = log[t]
                 ELSE /\ tpc'[t] = "settled"
                      /\ (~clientCancel /\ ~FatalSent)
                             => log'[t] = Append(log[t], Ev("error"))
        /\ (tpc[t] = "delay" /\ tpc'[t] # "delay") =>
              /\ attempt'[t] = attempt[t] + 1
              /\ attempt'[t] <= Retries
              /\ chan = "open" =>
                    /\ tpc'[t] = "calling"
                    /\ log'[t] = Append(log[t], <<"retry", attempt'[t]>>)

C12_TimeoutIsFailedAttempt == [][C12_Step]_vars

\* A task whose first attempt timed out has reported retry 2 and issued its
\* second attempt while the abandoned call is still unsettled.
C12_Witness ==
    /\ ~clientCancel /\ ~FatalSent
    /\ lingering >= 1
    /\ \E t \in Items :
          /\ t \in aborted
          /\ tpc[t] = "calling"
          /\ attempt[t] = 2
          /\ log[t] = <<Ev("processing"), <<"retry", 2>>>>

\* The task reported a plain error for a failure of its model call: it had
\* what it needed to call, its stream never ended, and the error it caught
\* last is a transient one.
SkippedForTransient(t) ==
    /\ Has(log[t], Ev("error"))
    /\ hasBench[t]
    /\ response[t] = "none"
    /\ errs[t] # << >>
    /\ errs[t][Len(errs[t])] = "transient"

\* C13: a WorkItem is reported as failed for a transient failure of its model
\* call only after 3 attempts have failed, whether the failure is raised by
\* the call or by the reading of its stream.
C13_SkipOnlyAfterAllAttempts ==
    \A t \in Items : SkippedForTransient(t) =>
        attempt[t] = Retries /\ Len(errs[t]) = Retries

\* The events that end the reporting on a WorkItem.
Terminals == {Ev("completed"), Ev("error"), Ev("fatal_error")}

TerminalCount(seq) == Cardinality({i \in 1 .. Len(seq) : seq[i] \in Terminals})

\* The events of one WorkItem are in step order: processing, retry events
\* with growing attempt numbers, at most one token_usage, at most one
\* terminal event, and nothing more.
InStepOrder(seq) ==
    LET n == RetryCount(seq)
        rest == SubSeq(seq, n + 2, Len(seq))
    IN  /\ Len(seq) >= n + 1
        /\ seq[1] = Ev("processing")
        /\ \A i \in 2 .. n + 1 : seq[i][1] = "retry"
        /\ \A i \in 2 .. n : seq[i][2] < seq[i + 1][2]
        /\ \/ rest = << >>
           \/ rest = <<Ev("token_usage")>>
           \/ Len(rest) = 1 /\ rest[1] \in Terminals
           \/ Len(rest) = 2 /\ rest[1] = Ev("token_usage") /\ rest[2] \in Terminals

\* C14: the events of every WorkItem that has any are in step order, and once
\* the tasks of a session that was never canceled have all ended, every
\* WorkItem has exactly one processing and exactly one terminal event.
C14_EventsInStepOrder ==
    \A t \in Items :
        /\ log[t] # << >> => InStepOrder(log[t])
        /\ (NeverCanceled /\ \A u \in Items : tpc[u] = "settled") =>
              /\ Count(log[t], Ev("processing")) = 1
              /\ TerminalCount(log[t]) = 1

\* A session that was never canceled has ended with one WorkItem completed
\* after two retries and another one failed before any call.
C14_Witness ==
    /\ NeverCanceled
    /\ spc = "ended"
    /\ \E t \in Items : log[t] = <<Ev("processing"), <<"retry", 2>>, <<"retry", 3>>,
                                   Ev("token_usage"), Ev("completed")>>
    /\ \E t \in Items : log[t] = <<Ev("processing"), Ev("error")>>

\* C15: a task is started at most once and never runs again once it has
\* ended; the entry of a WorkItem is written only by its own task, in the step
\* that reports completed, when the ResultMap has no entry for it yet, and no
\* step removes an entry or writes another one.
C15_Step ==
    /\ allResults \subseteq allResults'
    /\ \A t \in Items :
          /\ tpc[t] # "queued" => tpc'[t] # "queued"
          /\ tpc[t] = "settled" => tpc'[t] = "settled"
          /\ Count(log'[t], Ev("processing")) <= 1
          /\ Count(log'[t], Ev("completed")) > Count(log[t], Ev("completed")) =>
                /\ t \notin allResults
                /\ tpc[t] = "streaming"
                /\ allResults' = allResults \cup {t}
          /\ (t \in allResults' /\ t \notin allResults) =>
                Count(log'[t], Ev("completed")) = Count(log[t], Ev("completed")) + 1

C15_EntryWrittenOnce == [][C15_Step]_vars

\* Two WorkItems have their entries while another task is still running.
C15_Witness ==
    /\ Cardinality(allResults) >= 2
    /\ \E t \in Items : tpc[t] = "streaming" /\ attempt[t] > 1

\* C16: once the session is canceled, no step adds an entry to the ResultMap
\* or enqueues a completed event, whatever the position of the task.
C16_Step ==
    (clientCancel \/ FatalSent) =>
        /\ allResults' = allResults
        /\ \A t \in Items :
              Count(log'[t], Ev("completed")) = Count(log[t], Ev("completed"))

C16_NoResultAfterCancel == [][C16_Step]_vars

\* C17: once the client has canceled the session, no step enqueues an error
\* event, fatal or not, for any WorkItem.
C17_Step ==
    clientCancel => \A t \in Items :
        /\ Count(log'[t], Ev("error")) = Count(log[t], Ev("error"))
        /\ Count(log'[t], Ev("fatal_error")) = Count(log[t], Ev("fatal_error"))

C17_NoErrorAfterClientCancel == [][C17_Step]_vars

FatalCount ==
    Cardinality({t \in Items : Has(log[t], Ev("fatal_error"))})

\* C18, the states: at most one task has reported a fatal error, and once.
C18_OneFatal ==
    /\ FatalCount <= 1
    /\ \A t \in Items : Count(log[t], Ev("fatal_error")) <= 1

\* C18, the steps: after the fatal error no task and no session step enqueues
\* anything, and start() ends either on its canceled branch or with the
\* channel open, so that no enqueue on the closed channel throws out of it.
C18_Step ==
    /\ FatalSent => (log' = log /\ sessLog' = sessLog)
    /\ (spc = "running" /\ spc' = "ended") =>
          \/ chan = "open"
          \/ Gid \in DOMAIN generationStore /\ generationStore[Gid].canceled

Called(name, id) == lastCall'[1] = name /\ lastCall'[2] = id

\* The records of the ids other than id are what they were.
OthersKept(id) ==
    \A o \in GenIds \ {id} :
        /\ o \in DOMAIN generationStore' <=> o \in DOMAIN generationStore
        /\ o \in DOMAIN generationStore => generationStore'[o] = generationStore[o]

\* C19: cancelGeneration(id) on an id with a record sets its canceled flag,
\* keeps its controllers, has abort() called on every one of them and on no
\* other controller, and leaves the records of the other ids as they were.
C19_Step ==
    \A id \in GenIds :
        (Called("cancelGeneration", id) /\ id \in DOMAIN generationStore) =>
            /\ id \in DOMAIN generationStore'
            /\ generationStore'[id].canceled
            /\ generationStore'[id].controllers = generationStore[id].controllers
            /\ aborted' = aborted \cup generationStore[id].controllers
            /\ OthersKept(id)

C19_CancelAbortsItsControllers == [][C19_Step]_vars

\* cancelGeneration has just run on an id with two controllers while another
\* id holds a controller of its own, which is not aborted.
C19_Witness ==
    \E id \in GenIds, o \in GenIds :
        /\ id # o
        /\ lastCall = <<"cancelGeneration", id, FALSE>>
        /\ id \in DOMAIN generationStore
        /\ generationStore[id].canceled
        /\ Cardinality(generationStore[id].controllers) >= 2
        /\ generationStore[id].controllers \subseteq aborted
        /\ o \in DOMAIN generationStore
        /\ ~generationStore[o].canceled
        /\ generationStore[o].controllers # {}
        /\ generationStore[o].controllers \cap aborted = {}

CancelCalled(id) == Called("cancelGeneration", id) \/ Called("DELETE", id)

\* C20: the store is left as it was by isCanceled(id) for any id, by
\* cancelGeneration(id) and DELETE for an id without a record, by
\* clearGeneration(id) for an id whose record is already deleted, by
\* getOrCreateGen(id) for an id with a record, and by cancelGeneration(id) and
\* DELETE for an id already canceled, which then also abort nothing new
\* unless a controller was registered since.
C20_Step ==
    \A id \in GenIds :
        /\ Called("isCanceled", id) =>
              /\ generationStore' = generationStore
              /\ aborted' = aborted
              /\ lastCall'[3] = (id \in DOMAIN generationStore
                                   /\ generationStore[id].canceled)
        /\ (CancelCalled(id) /\ id \notin DOMAIN generationStore) =>
              generationStore' = generationStore /\ aborted' = aborted
        /\ (Called("clearGeneration", id) /\ id \notin DOMAIN generationStore) =>
              generationStore' = generationStore /\ aborted' = aborted
        /\ (Called("getOrCreateGen", id) /\ id \in DOMAIN generationStore) =>
              generationStore' = generationStore /\ aborted' = aborted
        /\ (/\ CancelCalled(id)
            /\ id \in DOMAIN generationStore
            /\ generationStore[id].canceled) =>
              /\ generationStore' = generationStore
              /\ generationStore[id].controllers \subseteq aborted
                     => aborted' = aborted

C20_NoOpsKeepTheStore == [][C20_Step]_vars

\* DELETE has just answered for an id that has no record, and has created
\* none, while the record of another id holds its flag and a live controller.
C20_Witness ==
    \E id \in GenIds, o \in GenIds :
        /\ lastCall = <<"DELETE", id, TRUE>>
        /\ id \notin DOMAIN generationStore
        /\ o \in DOMAIN generationStore
        /\ generationStore[o].canceled
        /\ generationStore[o].controllers # {}
        /\ generationStore[o].controllers \subseteq aborted

\* The record of the modelled session has its canceled flag set, in the
\* given store.
FlagSet(store) == Gid \in DOMAIN store /\ store[Gid].canceled

\* C21, the states: a session that was canceled, by its client or by a fatal
\* error, and has not ended has its flag set.
C21_CanceledStaysVisible ==
    ((clientCancel \/ FatalSent) /\ spc # "ended") => FlagSet(generationStore)

\* C21, the steps: while the session runs, no step takes a set flag back.
C21_Step ==
    (spc # "ended" /\ FlagSet(generationStore))
        => (spc' = "ended" \/ FlagSet(generationStore'))

C22_HandlesOfRunningTasks ==
    /\ Gid \in DOMAIN generationStore =>
          generationStore[Gid].controllers \subseteq
              {t \in Items : tpc[t] \in {"calling", "delay", "streaming"}}
    /\ spc = "ended" => Gid \notin DOMAIN generationStore

\* C22, the steps: the record is deleted with an empty controller set, and
\* once the session has ended no step writes to the store.
C22_Step ==
    /\ (Gid \in DOMAIN generationStore /\ Gid \notin DOMAIN generationStore')
          => generationStore[Gid].controllers = {}
    /\ spc = "ended" => generationStore' = generationStore

SpecLive == InitLive /\ [][Next]_vars /\ WF_vars(Next)

\* The session has terminated: the channel is closed and the record removed.
Terminated ==
    /\ spc = "ended"
    /\ chan = "closed"
    /\ Gid \notin DOMAIN generationStore

\* C23: every session eventually terminates, with its channel closed and its
\* record removed.
C23_EventuallyTerminated == <>Terminated

\* A session canceled by its client has terminated after one of its tasks
\* had used up its three attempts.
C23_Witness ==
    /\ Terminated
    /\ clientCancel
    /\ \E t \in Items : Len(errs[t]) = Retries

\* ------------------------------------------- the enumeration of WorkItems
\* route.ts:138-159 on its own: the parsed schema is an object whose keys are
\* unit codes and whose values are objects; Object.keys gives the keys of an
\* object once each, in its iteration order.

\* The second-level keys a unit can have: the reserved one and two questions.
UnitKeys == {"assessment_guide", "q1", "q2"}

\* The units of a schema, the numbers standing for their codes.
UnitCodes == 1 .. MaxUnits

\* The sequences without repetition over a set.
DistinctSeqs(S) ==
    {q \in UNION {[1 .. n -> S] : n \in 0 .. Cardinality(S)} :
        \A i, j \in DOMAIN q : i # j => q[i] # q[j]}

\* The schemas: units with distinct codes, each with its keys in order.
Schemas ==
    {q \in UNION {[1 .. n -> [unit : UnitCodes, keys : DistinctSeqs(UnitKeys)]] :
                     n \in 0 .. MaxUnits} :
        \A i, j \in DOMAIN q : i # j => q[i].unit # q[j].unit}

\* A filter that keeps every key.
QuestionKeysAll(keys) == keys

\* route.ts:149 and 158, Object.keys(unitData).filter(k => k !== 'assessment_guide').
QuestionKeys(keys) == SelectSeq(keys, LAMBDA k : k # "assessment_guide")

\* route.ts:147-150, the first loop: the sum of the numbers of question keys.
RECURSIVE CountCalls(_)
CountCalls(schema) ==
    IF schema = << >> THEN 0
    ELSE Len(QuestionKeys(Head(schema).keys)) + CountCalls(Tail(schema))

\* route.ts:155-159, the second loop: one task per unit and question key.
RECURSIVE BuildTasks(_)
BuildTasks(schema) ==
    IF schema = << >> THEN << >>
    ELSE LET u == Head(schema)
             ks == QuestionKeys(u.keys)
         IN  [i \in 1 .. Len(ks) |-> <<u.unit, ks[i]>>] \o BuildTasks(Tail(schema))

EnumInit ==
    /\ NoProgram
    /\ parsedSchemaGuide \in Schemas
    /\ totalApiCallCount = 0
    /\ tasks = << >>
    /\ ParseAtRest
    /\ ClientAtRest
    /\ FillAtRest
    /\ PeerAtRest
    /\ EvalAtRest
    /\ SeqAtRest

\* route.ts:146-159.  start() counts the calls and hands the tasks to p-limit.
Enumerate ==
    /\ tasks = << >>
    /\ totalApiCallCount' = CountCalls(parsedSchemaGuide)
    /\ tasks' = BuildTasks(parsedSchemaGuide)
    /\ UNCHANGED <<parsedSchemaGuide, programVars, parseVars, clientVars,
                   fillVars, peerVars, evalVars, seqVars>>

EnumNext == Enumerate

SpecEnum == EnumInit /\ [][EnumNext]_vars

\* The place of a (unit, key) pair in the schema: the index of its unit and
\* the index of the key in it.
UnitIndex(p) ==
    CHOOSE a \in DOMAIN parsedSchemaGuide : parsedSchemaGuide[a].unit = p[1]

KeyIndex(p) ==
    CHOOSE b \in DOMAIN parsedSchemaGuide[UnitIndex(p)].keys :
        parsedSchemaGuide[UnitIndex(p)].keys[b] = p[2]

IsWorkItem(p) ==
    /\ p[2] # "assessment_guide"
    /\ \E a \in DOMAIN parsedSchemaGuide :
          /\ parsedSchemaGuide[a].unit = p[1]
          /\ \E b \in DOMAIN parsedSchemaGuide[a].keys :
                parsedSchemaGuide[a].keys[b] = p[2]

\* C24: the tasks handed to the scheduler are the (unit, key) pairs of the
\* schema whose key is not assessment_guide, each once and in the order of
\* the schema, and the count made before equals their number.
C24_Step ==
    tasks' # tasks =>
        /\ \A i \in DOMAIN tasks' : IsWorkItem(tasks'[i])
        /\ \A a \in DOMAIN parsedSchemaGuide :
              \A b \in DOMAIN parsedSchemaGuide[a].keys :
                  parsedSchemaGuide[a].keys[b] # "assessment_guide" =>
                      Cardinality({i \in DOMAIN tasks' :
                          tasks'[i] = <<parsedSchemaGuide[a].unit,
                                        parsedSchemaGuide[a].keys[b]>>}) = 1
        /\ \A i, j \in DOMAIN tasks' : i < j =>
              \/ UnitIndex(tasks'[i]) < UnitIndex(tasks'[j])
              \/ /\ UnitIndex(tasks'[i]) = UnitIndex(tasks'[j])
                 /\ KeyIndex(tasks'[i]) < KeyIndex(tasks'[j])
        /\ totalApiCallCount' = Len(tasks')

C24_TasksAreTheWorkItems ==
    /\ [](totalApiCallCount = Len(tasks))
    /\ [][C24_Step]_vars

\* Two units, the guide key in the middle of the first one's keys: three
\* tasks and a count of three.
C24_Witness ==
    /\ Len(parsedSchemaGuide) = 2
    /\ parsedSchemaGuide[1].keys = <<"q2", "assessment_guide", "q1">>
    /\ parsedSchemaGuide[2].keys = <<"q1">>
    /\ Len(tasks) = 3
    /\ totalApiCallCount = 3

\* C25, the states: a WorkItem without benchMarkAns never has an attempt, a
\* caught error, a controller or an entry, and once its task has ended it
\* has processing and one plain error, or nothing if the session was
\* canceled before the task started.
C25_SkippedWithoutCall ==
    \A t \in Items : ~hasBench[t] =>
        /\ attempt[t] = 0
        /\ errs[t] = << >>
        /\ t \notin allResults
        /\ t \notin aborted
        /\ Gid \in DOMAIN generationStore => t \notin generationStore[Gid].controllers
        /\ tpc[t] \in {"queued", "settled"}
        /\ log[t] # << >> => log[t] = << <<"processing", 0>>, <<"error", 0>> >>
        /\ (tpc[t] = "settled" /\ log[t] = << >>) => (clientCancel \/ FatalSent)

\* C25, the steps: the task of such a WorkItem that starts in a session that
\* is not canceled ends in the same step with its two events, and leaves the
\* store, the channel and the ResultMap to the other tasks as they were.
C25_Step ==
    \A t \in Items :
        (/\ ~hasBench[t]
         /\ tpc[t] = "queued" /\ tpc'[t] # "queued"
         /\ ~clientCancel /\ ~FatalSent) =>
            /\ tpc'[t] = "settled"
            /\ log'[t] = << <<"processing", 0>>, <<"error", 0>> >>
            /\ generationStore' = generationStore
            /\ chan' = chan
            /\ allResults' = allResults
            /\ \A u \in Items \ {t} : tpc'[u] = tpc[u] /\ log'[u] = log[u]

\* C25: a WorkItem without benchMarkAns is reported with processing and one
\* plain error, makes no call, registers no controller, gets no entry, and
\* its task ends normally, so that the session goes on.
C25_MissingBenchIsSkipped == [](C25_SkippedWithoutCall) /\ [][C25_Step]_vars

\* done was sent after a WorkItem without benchMarkAns had been skipped and
\* every other WorkItem had completed.
C25_Witness ==
    /\ DoneCount = 1
    /\ \E t \in Items :
          /\ ~hasBench[t]
          /\ log[t] = << <<"processing", 0>>, <<"error", 0>> >>
          /\ doneMap[1] = Items \ {t}

\* ------------------------------------------- the parsing of a response
\* route.ts:292-334 on its own, for a task whose stream has ended on an open
\* channel.  A text is a sequence of characters: the two braces, "m" for one
\* well-formed member ("generatedAnswer": "...") and "x" for any other text.
Chars == {"{", "}", "m", "x"}

Texts == UNION {[1 .. n -> Chars] : n \in 0 .. MaxLen}

\* String.prototype.indexOf and lastIndexOf, counting from 1, 0 for -1.
IndexOf(text, c) ==
    IF \E i \in DOMAIN text : text[i] = c
    THEN CHOOSE i \in DOMAIN text : text[i] = c /\ \A k \in 1 .. i - 1 : text[k] # c
    ELSE 0

\* lastIndexOf replaced by indexOf.
LastIndexOfAsIndexOf(text, c) == IndexOf(text, c)

LastIndexOf(text, c) ==
    IF \E i \in DOMAIN text : text[i] = c
    THEN CHOOSE i \in DOMAIN text :
             text[i] = c /\ \A k \in i + 1 .. Len(text) : text[k] # c
    ELSE 0

\* JSON.parse does not throw: of the texts over Chars that begin with "{"
\* and end with "}", the empty object and the object with one member.
JsonParses(text) == text \in {<<"{", "}">>, <<"{", "m", "}">>}

\* route.ts:306-316.  The span from the first "{" to the last "}" exists and
\* parses.
ParsesSpan(text) ==
    LET jsonStart == IndexOf(text, "{")
        jsonEnd == LastIndexOf(text, "}")
    IN  /\ jsonStart # 0
        /\ jsonEnd # 0
        /\ jsonEnd > jsonStart
        /\ JsonParses(SubSeq(text, jsonStart, jsonEnd))

ParseInit ==
    /\ NoProgram
    /\ EnumAtRest
    /\ ClientAtRest
    /\ FillAtRest
    /\ PeerAtRest
    /\ EvalAtRest
    /\ SeqAtRest
    /\ responseContent \in Texts
    /\ sent = << >>
    /\ recorded = FALSE

\* route.ts:292-334.  token_usage, then an error for an empty text or one
\* that does not parse, otherwise the entry and completed.
ParseResponse ==
    /\ sent = << >>
    /\ IF responseContent # << >> /\ ParsesSpan(responseContent)
       THEN /\ recorded' = TRUE
            /\ sent' = <<Ev("token_usage"), Ev("completed")>>
       ELSE /\ recorded' = FALSE
            /\ sent' = <<Ev("token_usage"), Ev("error")>>
    /\ UNCHANGED <<responseContent, programVars, enumVars, clientVars,
                   fillVars, peerVars, evalVars, seqVars>>

ParseNext == ParseResponse

SpecParse == ParseInit /\ [][ParseNext]_vars

\* The text has a first "{" at i and a last "}" at j after it.
IsSpan(text, i, j) ==
    /\ i \in DOMAIN text /\ j \in DOMAIN text /\ i < j
    /\ text[i] = "{" /\ \A k \in 1 .. i - 1 : text[k] # "{"
    /\ text[j] = "}" /\ \A k \in j + 1 .. Len(text) : text[k] # "}"

\* The substring from the first "{" to the last "}" exists and parses.
SpanParses(text) ==
    \E i, j \in DOMAIN text : IsSpan(text, i, j) /\ JsonParses(SubSeq(text, i, j))

\* C26: a task that has parsed its response has reported token_usage and
\* either completed, with its entry written, when the substring from the
\* first "{" to the last "}" exists and parses, or else exactly one plain
\* error, with no entry and no completed.
C26_UnparsableIsOneError ==
    sent # << >> =>
        IF SpanParses(responseContent)
        THEN recorded /\ sent = << <<"token_usage", 0>>, <<"completed", 0>> >>
        ELSE ~recorded /\ sent = << <<"token_usage", 0>>, <<"error", 0>> >>

\* A text whose first "}" closes an object and whose last "}" does not: it
\* has been reported as an error.
C26_Witness ==
    /\ responseContent = <<"{", "}", "}">>
    /\ sent = << <<"token_usage", 0>>, <<"error", 0>> >>
    /\ ~recorded

\* The session ended on its schema: it has ended and no task was started.
EndedOnSchema == spc = "ended" /\ \A t \in Items : tpc[t] = "queued"

\* Such a session enqueued nothing for a WorkItem and no done, closed the
\* channel and deleted its record.
ClosedWithoutTasks ==
    /\ \A t \in Items : log[t] = << >> /\ attempt[t] = 0
    /\ DoneCount = 0
    /\ chan = "closed"
    /\ Gid \notin DOMAIN generationStore

MaxEvents == 2

NL == "\n"
Quote == "\""
Backslash == "\\"

\* The payloads: the question they are about, a text (a result or a message,
\* which may hold a blank line), and the fatal mark of a rate-limit error.
PayloadKeys == {"q1"}
PayloadTexts == {<<"a">>, <<NL, NL>>}

SseEvents ==
    {<<"processing", [key |-> k, text |-> << >>, fatal |-> FALSE]>> :
        k \in PayloadKeys}
    \cup {<<"completed", [key |-> k, text |-> x, fatal |-> FALSE]>> :
            k \in PayloadKeys, x \in PayloadTexts}
    \cup {<<"error", [key |-> k, text |-> x, fatal |-> f]>> :
            k \in PayloadKeys, x \in PayloadTexts, f \in BOOLEAN}
    \cup {<<"done", [key |-> k, text |-> << >>, fatal |-> FALSE]>> :
            k \in PayloadKeys}

\* The events after which the route closes the stream at once: a fatal error
\* (route.ts:344-345) and done (373-374).
ClosesStream(e) == e[1] = "done" \/ (e[1] = "error" /\ e[2].fatal)

\* JSON.stringify writes a newline inside a string as backslash, n.
RECURSIVE Escape(_)
Escape(text) ==
    IF text = << >> THEN << >>
    ELSE (IF Head(text) = NL THEN <<Backslash, "n">> ELSE <<Head(text)>>)
         \o Escape(Tail(text))

JsonStringifyRaw(d) ==
    <<d.key, IF d.fatal THEN "true" ELSE "false", Quote>> \o d.text
        \o <<Quote>>

\* JSON.stringify(data), route.ts:52.
JsonStringify(d) ==
    <<d.key, IF d.fatal THEN "true" ELSE "false", Quote>> \o Escape(d.text)
        \o <<Quote>>

\* route.ts:52, the frame of one event.
sendSseMessage(event, data) ==
    <<"event: ", event, NL, "data: ">> \o JsonStringify(data) \o <<NL, NL>>

\* s.split(sep) for a separator of one or two newlines: the pieces between the
\* separators, found from the left without overlap.
RECURSIVE SplitOn(_, _, _)
SplitOn(s, n, cur) ==
    IF s = << >> THEN <<cur>>
    ELSE IF Len(s) >= n /\ \A i \in 1..n : s[i] = NL
         THEN <<cur>> \o SplitOn(SubSeq(s, n + 1, Len(s)), n, << >>)
         ELSE SplitOn(Tail(s), n, Append(cur, Head(s)))

\* eventString.trim() === '', transcript-form.tsx:141.
IsBlank(frame) == \A i \in 1..Len(frame) : frame[i] = NL

\* transcript-form.tsx:144-153, the loop over the lines of a frame.
RECURSIVE EventTypeOf(_, _)
EventTypeOf(lines, type) ==
    IF lines = << >> THEN type
    ELSE LET line == Head(lines)
         IN  EventTypeOf(Tail(lines),
                         IF line # << >> /\ Head(line) = "event: "
                         THEN Tail(line) ELSE type)

RECURSIVE EventDataOf(_, _)
EventDataOf(lines, data) ==
    IF lines = << >> THEN data
    ELSE LET line == Head(lines)
         IN  EventDataOf(Tail(lines),
                         IF line # << >> /\ Head(line) = "data: "
                         THEN data \o Tail(line) ELSE data)

\* The inside of a JSON string: no bare newline or quote, and every backslash
\* followed by n.
RECURSIVE WellEscaped(_)
WellEscaped(s) ==
    \/ s = << >>
    \/ /\ Head(s) = Backslash
       /\ Len(s) >= 2 /\ s[2] = "n"
       /\ WellEscaped(SubSeq(s, 3, Len(s)))
    \/ /\ Head(s) \notin {Backslash, NL, Quote}
       /\ WellEscaped(Tail(s))

RECURSIVE Unescape(_)
Unescape(s) ==
    IF s = << >> THEN << >>
    ELSE IF Head(s) = Backslash
         THEN <<NL>> \o Unescape(SubSeq(s, 3, Len(s)))
         ELSE <<Head(s)>> \o Unescape(Tail(s))

\* JSON.parse(eventData), transcript-form.tsx:156: whether it returns, and
\* what it returns.
JsonValid(s) ==
    /\ Len(s) >= 4
    /\ s[1] \in PayloadKeys
    /\ s[2] \in {"true", "false"}
    /\ s[3] = Quote
    /\ s[Len(s)] = Quote
    /\ WellEscaped(SubSeq(s, 4, Len(s) - 1))

JsonValue(s) ==
    [key |-> s[1], text |-> Unescape(SubSeq(s, 4, Len(s) - 1)),
     fatal |-> s[2] = "true"]

ReportAfterAnyResult(type, report, acc) ==
    IF type \in {<<"done">>, <<"completed">>} THEN {acc} ELSE report

\* transcript-form.tsx:210-211: only the done handler sets the report.
ReportAfter(type, report, acc) ==
    IF type = <<"done">> THEN {acc} ELSE report

\* transcript-form.tsx:140-225, the body of the loop over the frames of one
\* read.  c is the state of the form: acc, report, downloaded, dispatched,
\* reader, and broke, which is TRUE once a handler has left the loop.  A
\* frame whose data JSON.parse rejects is dropped by the catch of line 222.
HandleFrame(c, frame) ==
    IF c.broke \/ IsBlank(frame) THEN c
    ELSE LET lines == SplitOn(frame, 1, << >>)
             type  == EventTypeOf(lines, <<"message">>)
             text  == EventDataOf(lines, << >>)
         IN  IF ~JsonValid(text) THEN c
             ELSE LET d   == JsonValue(text)
                      acc == IF type = <<"completed">>
                             THEN {r \in c.acc : r[1] # d.key}
                                  \cup {<<d.key, d.text>>}
                             ELSE c.acc
                  IN  [acc        |-> acc,
                       report     |-> ReportAfter(type, c.report, acc),
                       downloaded |-> c.downloaded
                                      \/ (type = <<"done">> /\ acc # {}),
                       dispatched |-> Append(c.dispatched, <<type, d>>),
                       reader     |-> IF type = <<"error">> /\ d.fatal
                                      THEN "canceled" ELSE c.reader,
                       broke      |-> \/ type = <<"done">>
                                      \/ (type = <<"error">> /\ d.fatal)]

RECURSIVE HandleFrames(_, _)
HandleFrames(c, frames) ==
    IF frames = << >> THEN c
    ELSE HandleFrames(HandleFrame(c, Head(frames)), Tail(frames))

\* route.ts:51-54 at a call that leaves the stream open.
SseSend(e) ==
    /\ ~closed
    /\ Len(written) < MaxEvents
    /\ ~ClosesStream(e)
    /\ written' = Append(written, e)
    /\ wire' = wire \o sendSseMessage(e[1], e[2])
    /\ UNCHANGED <<closed, buffer, dispatched, reader, accumulatedResults,
                   generatedReport, downloaded>>
    /\ UNCHANGED <<programVars, enumVars, parseVars, fillVars, peerVars,
                   evalVars, seqVars>>

\* route.ts:344-345 and 373-374: the event and the close of the stream.
SseSendAndClose(e) ==
    /\ ~closed
    /\ Len(written) < MaxEvents
    /\ ClosesStream(e)
    /\ written' = Append(written, e)
    /\ wire' = wire \o sendSseMessage(e[1], e[2])
    /\ closed' = TRUE
    /\ UNCHANGED <<buffer, dispatched, reader, accumulatedResults,
                   generatedReport, downloaded>>
    /\ UNCHANGED <<programVars, enumVars, parseVars, fillVars, peerVars,
                   evalVars, seqVars>>

\* route.ts:133, 366, 382, 384: the stream is closed without done.
SseClose ==
    /\ ~closed
    /\ closed' = TRUE
    /\ UNCHANGED <<written, wire, buffer, dispatched, reader,
                   accumulatedResults, generatedReport, downloaded>>
    /\ UNCHANGED <<programVars, enumVars, parseVars, fillVars, peerVars,
                   evalVars, seqVars>>

\* transcript-form.tsx:131-225, one turn of the reader loop on a chunk of n
\* tokens.
ReadChunk(n) ==
    /\ reader = "reading"
    /\ n \in 1..Len(wire)
    /\ \E events \in {SplitOn(buffer \o SubSeq(wire, 1, n), 2, << >>)} :
       \E c \in {HandleFrames([acc        |-> accumulatedResults,
                               report     |-> generatedReport,
                               downloaded |-> downloaded,
                               dispatched |-> dispatched,
                               reader     |-> reader,
                               broke      |-> FALSE],
                              SubSeq(events, 1, Len(events) - 1))} :
           /\ buffer' = events[Len(events)]
           /\ accumulatedResults' = c.acc
           /\ generatedReport' = c.report
           /\ downloaded' = c.downloaded
           /\ dispatched' = c.dispatched
           /\ reader' = c.reader
    /\ wire' = SubSeq(wire, n + 1, Len(wire))
    /\ UNCHANGED <<written, closed>>
    /\ UNCHANGED <<programVars, enumVars, parseVars, fillVars, peerVars,
                   evalVars, seqVars>>

\* transcript-form.tsx:132-133: reader.read() reports the end of the stream,
\* which was closed and read to its end, or which the form has canceled.
ReadEnd ==
    /\ \/ reader = "reading" /\ closed /\ wire = << >>
       \/ reader = "canceled"
    /\ reader' = "ended"
    /\ UNCHANGED <<written, closed, wire, buffer, dispatched,
                   accumulatedResults, generatedReport, downloaded>>
    /\ UNCHANGED <<programVars, enumVars, parseVars, fillVars, peerVars,
                   evalVars, seqVars>>

\* transcript-form.tsx:263-284, onStop: the fetch is aborted and the pending
\* reader.read() rejects into the catch of line 236.
Stop ==
    /\ reader \in {"reading", "canceled"}
    /\ reader' = "stopped"
    /\ UNCHANGED <<written, closed, wire, buffer, dispatched,
                   accumulatedResults, generatedReport, downloaded>>
    /\ UNCHANGED <<programVars, enumVars, parseVars, fillVars, peerVars,
                   evalVars, seqVars>>

\* transcript-form.tsx:287-299 and 474-475, the download button: onDownload
\* returns at once while the report is null.
ClickDownload ==
    /\ downloaded' = (downloaded \/ generatedReport # {})
    /\ UNCHANGED <<written, closed, wire, buffer, dispatched, reader,
                   accumulatedResults, generatedReport>>
    /\ UNCHANGED <<programVars, enumVars, parseVars, fillVars, peerVars,
                   evalVars, seqVars>>

ClientInit ==
    /\ NoProgram /\ EnumAtRest /\ ParseAtRest /\ ClientAtRest /\ FillAtRest
    /\ PeerAtRest
    /\ EvalAtRest
    /\ SeqAtRest

ClientNext ==
    \/ \E e \in SseEvents : SseSend(e)
    \/ \E e \in SseEvents : SseSendAndClose(e)
    \/ SseClose
    \/ \E n \in 1..Len(wire) : ReadChunk(n)
    \/ ReadEnd
    \/ Stop
    \/ ClickDownload

SpecClient == ClientInit /\ [][ClientNext]_vars

\* The pairs the reader loop is to handle for the events e: eventType is the
\* text after "event: ", the payload the value that was written.
AsDispatched(e) == [i \in 1..Len(e) |-> <<<<e[i][1]>>, e[i][2]>>]

\* The frames that a text holds: its closing blank lines.
FramesIn(s) == Len(SplitOn(s, 2, << >>)) - 1

\* C28: whatever events sendSseMessage has written and however the stream is
\* cut into chunks, the reader loop has handled the first of the written
\* events, each once, in the order written and with the type and payload
\* written; while it reads, the events it has not handled are the frames still
\* in its buffer and on the wire, and its buffer holds no finished frame; and
\* when the stream has ended it has handled every event written.
C28_FramesSurviveChunking ==
    /\ Len(dispatched) <= Len(written)
    /\ dispatched = SubSeq(AsDispatched(written), 1, Len(dispatched))
    /\ reader = "reading" =>
          /\ FramesIn(buffer \o wire) = Len(written) - Len(dispatched)
          /\ FramesIn(buffer) = 0
    /\ reader \in {"canceled", "ended"} =>
          dispatched = AsDispatched(written)

\* An event whose payload holds a blank line was handled as written, and the
\* chunk ended inside the frame of the next event, which is held back.
C28_Witness ==
    /\ Len(written) = 2
    /\ Len(dispatched) = 1
    /\ dispatched[1][2].text = <<NL, NL>>
    /\ buffer # << >>
    /\ wire # << >>

\* A done event has been handled by the reader loop.
DoneHandled == \E i \in 1..Len(dispatched) : dispatched[i][1] = <<"done">>

\* C29: as long as the form has handled no done event, the report is null and
\* no document was sent for download, whatever results the completed events
\* have accumulated; so a stream that ends without done, by the user's stop
\* or after a fatal error, never exposes them.
C29_ReportOnlyOnDone ==
    ~DoneHandled => (generatedReport = {} /\ ~downloaded)

\* The user stopped the run after a completed event had been handled and
\* before any done: results are accumulated, and none is exposed.
C29_Witness ==
    /\ reader = "stopped"
    /\ accumulatedResults # {}
    /\ ~DoneHandled
    /\ generatedReport = {}
    /\ ~downloaded

\* ---------------------------------------------------------------------------
\* The flat map of the fill-doc route (fill-doc/route.ts:35-76).
\*
\* transformAndFormatAnswers is followed on its own: it is given a master
\* schema and an answers object and returns the map the template is filled
\* from.  A placeholder key `${unitCode}_${i}` is the pair <<unitCode, i>>, and
\* the key "Student_Name" the pair <<"Student_Name", 0>>.
\* ---------------------------------------------------------------------------

\* The questions a unit of the schema may have: 1..MaxQuestions.
MaxQuestions == 2

\* fill-doc/route.ts:38.
maxQuestionNumber == 20

FillUnitCodes == {"CHCCCS038", "CHCCCS041"}

\* The master schemas: some units, each with its questions 1..n.
MasterSchemas ==
    UNION {[U -> {1..n : n \in 1..MaxQuestions}] : U \in SUBSET FillUnitCodes}

\* What the answers object holds at [unitCode][String(i)]: nothing (the unit
\* or the question is missing), an entry without an evaluation, or an entry
\* with one.
AnswerKinds == {"missing", "noEvaluation", "evaluated"}
AiAnswers == [FillUnitCodes \X (1..MaxQuestions) -> AnswerKinds]

\* aiAnswers?.[unitCode]?.[questionKey], fill-doc/route.ts:48.
AnswerAt(answers, unitCode, i) ==
    IF <<unitCode, i>> \in DOMAIN answers THEN answers[<<unitCode, i>>]
    ELSE "missing"

\* fill-doc/route.ts:35-76: a key is written for the units of the schema and
\* the numbers 1..maxQuestionNumber at which the answers hold an entry with
\* an evaluation, and Student_Name is written last.
transformAndFormatAnswers(answers, schema) ==
    LET keys == {k \in (DOMAIN schema) \X (1..maxQuestionNumber) :
                        AnswerAt(answers, k[1], k[2]) = "evaluated"}
    IN  [k \in keys \cup {<<"Student_Name", 0>>} |->
            IF k[1] = "Student_Name" THEN "studentName"
            ELSE "combinedContent"]

FillInit ==
    /\ NoProgram /\ EnumAtRest /\ ParseAtRest /\ ClientAtRest /\ PeerAtRest
    /\ EvalAtRest
    /\ SeqAtRest
    /\ masterSchema \in MasterSchemas
    /\ aiAnswers \in AiAnswers
    /\ transformedData = << >>

\* fill-doc/route.ts:107, the call.
Transform ==
    /\ transformedData = << >>
    /\ transformedData' = transformAndFormatAnswers(aiAnswers, masterSchema)
    /\ UNCHANGED <<masterSchema, aiAnswers>>
    /\ UNCHANGED <<programVars, enumVars, parseVars, clientVars, peerVars,
                   evalVars, seqVars>>

FillNext == Transform

SpecFill == FillInit /\ [][FillNext]_vars

\* C30: once transformAndFormatAnswers has returned, its map has the key
\* <<unitCode, i>> for every question i of every unit of the master schema,
\* whatever the answers object holds.
C30_EveryQuestionHasAKey ==
    transformedData # << >> =>
        \A u \in DOMAIN masterSchema : \A i \in masterSchema[u] :
            <<u, i>> \in DOMAIN transformedData

\* C31: the ResultMap that a done event carries has an entry for exactly the
\* WorkItems for which a completed event was enqueued before it (the entry
\* and the payload of completed are the one object of route.ts:325-334), and
\* no completed event is enqueued after done.
C31_DoneCarriesTheCompleted ==
    \A i \in 1 .. Len(doneMap) :
        doneMap[i] = {t \in Items : Has(log[t], <<"completed", 0>>)}

\* done was sent with the entries of two WorkItems, and without one for a
\* WorkItem whose task ended with an error.
C31_Witness ==
    /\ Len(doneMap) = 1
    /\ Cardinality(doneMap[1]) = 2
    /\ \E t \in Items : Has(log[t], <<"error", 0>>) /\ t \notin doneMap[1]

\* C32: in a session that is not canceled, a task whose call is in flight
\* holds a call handle on which abort() was not called: every attempt, the
\* one after a timeout included, is issued with a signal that is not aborted.
C32_AttemptIssuedUnaborted ==
    ~isCanceled(generationStore, Gid) =>
        \A t \in Items : tpc[t] = "calling" => t \notin aborted

\* ------------------------------------------------ timers that are not cleared
\* route.ts:235-243.  withTimeout never clears its timer: when the call has
\* returned in time the timer is still pending, and when it fires it calls
\* callAbort.abort() on the handle the stream is read with; its rejection is
\* lost, the race being settled.  Followed while the task reads the stream,
\* where the timer of the attempt that returned is always pending; after the
\* task has ended the handle is out of the record and the abort reaches
\* nothing.
TimerFiresLate(t) ==
    /\ tpc[t] = "streaming"
    /\ aborted' = aborted \cup {t}
    /\ UNCHANGED <<generationStore, chan, tpc, attempt, errs, response, log,
                   allResults, faults, startVars, envVars>>

\* The session with the timers of returned attempts followed to their firing.
NextTimers == Next \/ \E t \in Items : TimerFiresLate(t)

SpecTimers == Init /\ [][NextTimers]_vars

\* C33: while a task reads its stream, abort() is called on its call handle
\* only by a cancellation of the generation: no timer of an attempt that has
\* returned in time does it.
C33_Step ==
    \A t \in Items :
        (tpc[t] = "streaming" /\ t \notin aborted /\ t \in aborted') =>
            (Gid \in DOMAIN generationStore' /\ generationStore'[Gid].canceled)

C33_NoAbortByStaleTimer == [][C33_Step]_vars

\* ------------------------------------------- two sessions under the same id
\* route.ts:96-98 and 116.  The generation id is the caller's, and a second
\* POST with the id of a running session shares its record: getOrCreateGen
\* returns the record that exists.  The session of Spec is followed together
\* with such a peer, of which only the calls on the shared record are kept:
\* it arrives while the session runs uncanceled, it has no call in flight,
\* and at its end (route.ts:362-376) it closes silently or sends its done,
\* and deletes the record.
PeerStarts ==
    /\ peer = "absent"
    /\ spc # "ended"
    /\ ~isCanceled(generationStore, Gid)
    /\ peer' = "running"
    /\ generationStore' = getOrCreateGen(generationStore, Gid)
    /\ UNCHANGED <<chan, tpc, attempt, errs, response, log, allResults,
                   aborted, faults, startVars, lingering, hasBench,
                   clientCancel, lastCall, enumVars, parseVars, clientVars,
                   fillVars, evalVars, seqVars>>

PeerEnds ==
    /\ peer = "running"
    /\ peer' = IF isCanceled(generationStore, Gid) THEN "silent" ELSE "done"
    /\ generationStore' = clearGeneration(generationStore, Gid)
    /\ aborted' = {}
    /\ UNCHANGED <<chan, tpc, attempt, errs, response, log, allResults,
                   faults, startVars, lingering, hasBench, clientCancel,
                   lastCall, enumVars, parseVars, clientVars, fillVars,
                   evalVars, seqVars>>

NextShared == Next \/ PeerStarts \/ PeerEnds

SpecShared == Init /\ [][NextShared]_vars

\* C34: when the client has canceled the generation while the session and
\* its peer were both running, and the peer has ended first, silently, the
\* session sends no done either.
C34_NeitherSendsDone ==
    (clientCancel /\ peer = "silent") => DoneCount = 0

\* ------------------------------------------------------ POST and its checks
\* The requests: whether the API key is configured, the curriculum is in the
\* catalogue, and the body carries a transcript.
Requests == [apiKey : BOOLEAN, curriculum : BOOLEAN, transcript : BOOLEAN]

\* route.ts:92-114, the three early returns of POST.
Validated(req) == req.apiKey /\ req.curriculum /\ req.transcript

\* A POST that sets up its record before it checks the request.
RecordAtPostEarly(store, id, req) == getOrCreateGen(store, id)

\* route.ts:92-116: getOrCreateGen(generationId) comes after the last of the
\* early returns.
RecordAtPost(store, id, req) ==
    IF Validated(req) THEN getOrCreateGen(store, id) ELSE store

\* route.ts:89-122, POST up to the construction of the stream, with the
\* answer it gives: FALSE for an error response.
Post(id, req) ==
    /\ generationStore' = RecordAtPost(generationStore, id, req)
    /\ lastCall' =
           <<"POST", id, req.apiKey /\ req.curriculum /\ req.transcript>>
    /\ UNCHANGED <<aborted, sessionVars>>

PostNext == RegNext \/ \E id \in GenIds, req \in Requests : Post(id, req)

SpecPost == RegInit /\ [][PostNext]_vars

\* C35: a POST that is answered with an error leaves the generation store as
\* it was, with no record made or changed, and starts no session: no task
\* leaves the queue and no event is enqueued.
C35_Step ==
    (lastCall'[1] = "POST" /\ ~lastCall'[3]) =>
        /\ generationStore' = generationStore
        /\ aborted' = aborted
        /\ tpc' = tpc /\ log' = log /\ sessLog' = sessLog /\ chan' = chan
        /\ spc' = spc

C35_RejectedPostLeavesNothing == [][C35_Step]_vars

\* A rejected POST was answered for an id that has no record, while another
\* id has one.
C35_Witness ==
    /\ lastCall = <<"POST", "g1", FALSE>>
    /\ DOMAIN generationStore = {"g2"}

\* ---------------------------------------------------------------------------
\* The CHC33021 route: the response schema and the mapping of the response.
\*
\* createDynamicJsonSchema (part_001:73-117) names the fields the model is to
\* return, and the task (part_001:347-362) reads the fields of the parsed
\* response.  A field name is the sequence of the pieces it is put together
\* from, so that `performance_observed_${ key } ` (line 90, with the blank
\* before the closing quote) and `performance_observed_${key}` (line 353) are
\* the different strings they are.
\* ---------------------------------------------------------------------------
InstructionKeys == {"1", "2", "question"}

\* !isNaN(Number(k)), part_001:84 and 348.
IsNumbered(k) == k \in {"1", "2"}

BenchmarkKeys(instructions) == {k \in instructions : IsNumbered(k)}

\* part_001:90-91.
PerfKey(key) == <<"performance_observed_", key, " ">>
ActionKey(key) == <<"example_action_", key, " ">>

\* part_001:73-117: the required fields of the schema, {} for null.
createDynamicJsonSchema(instructions) ==
    IF BenchmarkKeys(instructions) = {} THEN {}
    ELSE UNION {{PerfKey(k), ActionKey(k)} : k \in BenchmarkKeys(instructions)}
         \cup {<<"conclusion">>}

\* part_001:353-354, the names the task reads.
ReadPerfKey(key) == <<"performance_observed_", key>>
ReadActionKey(key) == <<"example_action_", key>>

\* json[name] || placeholder.
OrElse(json, name, placeholder) ==
    IF name \in DOMAIN json /\ json[name] # "" THEN json[name]
    ELSE placeholder

\* part_001:347-356.
FormatEvaluation(instructions, json) ==
    [k \in BenchmarkKeys(instructions) |->
        [performance_observed |->
             OrElse(json, ReadPerfKey(k), "No observation generated."),
         example_action |->
             OrElse(json, ReadActionKey(k), "No example action found.")]]

\* The parsed responses: objects that spell their fields as the schema does,
\* or as the task reads them, with values that may be empty.
SchemaSpelled ==
    UNION {{PerfKey(k), ActionKey(k)} : k \in {"1", "2"}} \cup {<<"conclusion">>}
TaskSpelled ==
    UNION {{ReadPerfKey(k), ReadActionKey(k)} : k \in {"1", "2"}}
    \cup {<<"conclusion">>}
ParsedResponses ==
    UNION {[F -> {"", "x", "y"}] :
              F \in (SUBSET SchemaSpelled) \cup (SUBSET TaskSpelled)}

EvalInit ==
    /\ NoProgram /\ EnumAtRest /\ ParseAtRest /\ ClientAtRest /\ FillAtRest
    /\ PeerAtRest
    /\ SeqAtRest
    /\ evalState \in [instructions : SUBSET InstructionKeys,
                      parsedAiJson : ParsedResponses,
                      formattedEvaluation : {<< >>}]

\* part_001:237-240 and 347-356: a task whose schema is not null and whose
\* response has parsed builds formattedEvaluation.
Format ==
    /\ evalState # << >>
    /\ evalState.formattedEvaluation = << >>
    /\ createDynamicJsonSchema(evalState.instructions) # {}
    /\ evalState' = [evalState EXCEPT !.formattedEvaluation =
                        FormatEvaluation(evalState.instructions,
                                         evalState.parsedAiJson)]
    /\ UNCHANGED <<programVars, enumVars, parseVars, clientVars, fillVars,
                   peerVars, seqVars>>

EvalNext == Format

SpecEval == EvalInit /\ [][EvalNext]_vars

\* C36: when the response has a value that is not empty for every field the
\* schema names, formattedEvaluation has one entry per numbered criterion,
\* and each entry carries the two values the response gives for the fields
\* the schema names for that criterion, and no placeholder.
C36_SchemaAndMappingAgree ==
    (/\ evalState # << >>
     /\ evalState.formattedEvaluation # << >>
     /\ \A f \in createDynamicJsonSchema(evalState.instructions) :
           /\ f \in DOMAIN evalState.parsedAiJson
           /\ evalState.parsedAiJson[f] # "")
    => /\ DOMAIN evalState.formattedEvaluation
             = BenchmarkKeys(evalState.instructions)
       /\ \A k \in DOMAIN evalState.formattedEvaluation :
             /\ evalState.formattedEvaluation[k].performance_observed
                   = evalState.parsedAiJson[PerfKey(k)]
             /\ evalState.formattedEvaluation[k].example_action
                   = evalState.parsedAiJson[ActionKey(k)]

\* ---------------------------------------------------------------------------
\* The sequential route: the WorkItems one after the other, each with its
\* retry loop (part_001:635-827).
\*
\* seqState.item is the WorkItem of the enclosing for loops, seqState.log the
\* events enqueued for each WorkItem.  The loop
\* `while (attempt < maxRetries && !success)` makes one model call per turn
\* and reads its stream to the end; every `continue` in its body is a
\* continue of this loop.
\* ---------------------------------------------------------------------------

\* part_001:714.
maxRetries == 3

SeqInit ==
    /\ NoProgram /\ EnumAtRest /\ ParseAtRest /\ ClientAtRest /\ FillAtRest
    /\ PeerAtRest /\ EvalAtRest
    /\ seqState = [pc |-> "item", item |-> 1, attempt |-> 0,
                   success |-> FALSE, log |-> [t \in Items |-> << >>]]

SeqUnchanged ==
    UNCHANGED <<programVars, enumVars, parseVars, clientVars, fillVars,
                peerVars, evalVars>>

SeqAt(pc) ==
    /\ seqState # << >>
    /\ seqState.pc = pc

SeqEnqueue(events) ==
    [seqState.log EXCEPT ![seqState.item] = @ \o events]

\* part_001:638-659 and 714-716.  The WorkItem reports processing; without
\* instructions or a schema it reports an error and the for loop continues,
\* otherwise its retry loop starts.
SeqProcess(usable) ==
    /\ SeqAt("item")
    /\ seqState.item \in Items
    /\ seqState' =
          IF usable
          THEN [seqState EXCEPT !.pc = "test", !.attempt = 0,
                                !.success = FALSE,
                                !.log = SeqEnqueue(<<"processing">>)]
          ELSE [seqState EXCEPT !.item = @ + 1,
                                !.log = SeqEnqueue(<<"processing", "error">>)]
    /\ SeqUnchanged

\* part_001:826-827, after the last WorkItem: done and close.
SeqDone ==
    /\ SeqAt("item")
    /\ seqState.item \notin Items
    /\ seqState' = [seqState EXCEPT !.pc = "closed"]
    /\ SeqUnchanged

\* part_001:718-719, the loop test and `attempt++`.
SeqTest ==
    /\ SeqAt("test")
    /\ seqState' =
          IF seqState.attempt < maxRetries /\ ~seqState.success
          THEN [seqState EXCEPT !.pc = "calling", !.attempt = @ + 1]
          ELSE [seqState EXCEPT !.pc = "item", !.item = @ + 1]
    /\ SeqUnchanged

\* part_001:731-801.  The stream of the call ends with the text c: token_usage,
\* then for an empty or unparsable text an error and `continue`, otherwise
\* the entry of allResults, completed and success = true.
SeqResponds(c) ==
    /\ SeqAt("calling")
    /\ seqState' =
          IF Parses(c)
          THEN [seqState EXCEPT
                   !.pc = "test", !.success = TRUE,
                   !.log = SeqEnqueue(<<"token_usage", "completed">>)]
          ELSE [seqState EXCEPT
                   !.pc = "test",
                   !.log = SeqEnqueue(<<"token_usage", "error">>)]
    /\ SeqUnchanged

\* part_001:803-821.  The call or the stream throws: a 429 is fatal and
\* closes the channel, the last attempt's error is reported, an earlier one
\* is followed by the backoff.
SeqFails(kind) ==
    /\ SeqAt("calling")
    /\ seqState' =
          IF IsRateLimit(kind)
          THEN [seqState EXCEPT !.pc = "closed",
                                !.log = SeqEnqueue(<<"fatal_error">>)]
          ELSE IF seqState.attempt >= maxRetries
          THEN [seqState EXCEPT !.pc = "test",
                                !.log = SeqEnqueue(<<"error">>)]
          ELSE [seqState EXCEPT !.pc = "backoff"]
    /\ SeqUnchanged

\* part_001:816-820, the backoff is over.
SeqBackoffElapses ==
    /\ SeqAt("backoff")
    /\ seqState' = [seqState EXCEPT !.pc = "test"]
    /\ SeqUnchanged

SeqNext ==
    \/ \E usable \in BOOLEAN : SeqProcess(usable)
    \/ SeqDone
    \/ SeqTest
    \/ \E c \in Contents : SeqResponds(c)
    \/ \E k \in ErrKinds : SeqFails(k)
    \/ SeqBackoffElapses

SpecSeq == SeqInit /\ [][SeqNext]_vars

\* The terminal events enqueued so far for WorkItem t.
SeqTerminals(t) ==
    SelectSeq(seqState.log[t],
              LAMBDA e : e \in {"completed", "error", "fatal_error"})

\* C37: every WorkItem of the sequential route has at most one terminal
\* event (so the error for an empty or unparsable response is its only one,
\* and no completed follows an error), and once it has one its loop makes no
\* further call.
C37_OneTerminalEvent ==
    seqState # << >> =>
        \A t \in Items :
            /\ Len(SeqTerminals(t)) <= 1
            /\ (Len(SeqTerminals(t)) = 1 /\ seqState.item = t)
                   => seqState.pc # "calling"

\* ---------------------------------------------------------------------------
\* The flat map of CHC43121 (curriculum-logic/CHC43121.ts:68-96) over the
\* ResultMap the route builds (route.ts:155-158 and 324-332).
\*
\* A question key is the sequence of its characters.  masterSchema gives the
\* question keys of each unit, aiAnswers the generatedAnswer of every
\* <<unitCode, questionKey>> the route has completed, a text being the
\* sequence of its pieces.
\* ---------------------------------------------------------------------------

\* CHC43121.ts:72.
maxQuestionNumberCHC43121 == 30

\* String(i) for the numbers of the loop, CHC43121.ts:79.
StringOf(i) ==
    LET digit(d) == <<"0", "1", "2", "3", "4", "5", "6", "7", "8", "9">>[d + 1]
    IN  IF i < 10 THEN <<digit(i)>> ELSE <<digit(i \div 10), digit(i % 10)>>

\* Keys that route.ts:158 can enumerate: whatever schema.json names, except
\* assessment_guide.
FlatQuestionKeys == {<<"1">>, <<"3", "0">>, <<"3", "1">>}

FlatSchemas ==
    UNION {[U -> (SUBSET FlatQuestionKeys) \ {{}}] : U \in SUBSET FillUnitCodes}

studentName == "Ann"

\* /\(student name\)/gi and /{firstName}/gi, CHC43121.ts:70-71.
NamePlaceholders == {"(student name)", "(Student Name)", "{firstName}"}

GeneratedAnswers == {<<"a">>, <<"(Student Name)", "a", "{firstName}">>}

\* The ResultMaps of a schema: an entry for some of its questions, with
\* a generatedAnswer that is never empty (route.ts:324-332).
ResultMapsOf(schema) ==
    LET positions == {k \in (DOMAIN schema) \X FlatQuestionKeys :
                          k[2] \in schema[k[1]]}
    IN  UNION {[P -> GeneratedAnswers] : P \in SUBSET positions}

\* CHC43121.ts:87-89, the two replace calls.
ReplaceNames(text) ==
    [n \in DOMAIN text |->
        IF text[n] \in NamePlaceholders THEN studentName ELSE text[n]]

\* CHC43121.ts:68-96: for the units of the schema and the numbers
\* 1..maxQuestionNumber, the key <<unitCode, String(i)>> is written where the
\* answers hold an entry; Student_Name is written last.
transformAndFormatAnswersCHC43121(answers, schema) ==
    LET questionKeys == {StringOf(i) : i \in 1..maxQuestionNumberCHC43121}
        keys == {k \in (DOMAIN schema) \X questionKeys :
                    k \in DOMAIN answers}
    IN  [k \in keys \cup {<<"Student_Name", << >> >>} |->
            IF k[1] = "Student_Name" THEN <<studentName>>
            ELSE ReplaceNames(answers[k])]

FlatInit ==
    /\ NoProgram /\ EnumAtRest /\ ParseAtRest /\ ClientAtRest /\ PeerAtRest
    /\ EvalAtRest /\ SeqAtRest
    /\ masterSchema \in FlatSchemas
    /\ aiAnswers \in ResultMapsOf(masterSchema)
    /\ transformedData = << >>

\* The call of transformAndFormatAnswersCHC43121 on the ResultMap.
FlatTransform ==
    /\ transformedData = << >>
    /\ transformedData' =
          transformAndFormatAnswersCHC43121(aiAnswers, masterSchema)
    /\ UNCHANGED <<masterSchema, aiAnswers>>
    /\ UNCHANGED <<programVars, enumVars, parseVars, clientVars, peerVars,
                   evalVars, seqVars>>

FlatNext == FlatTransform

SpecFlat == FlatInit /\ [][FlatNext]_vars

\* C38: once transformAndFormatAnswersCHC43121 has returned, its map has,
\* for every unit of the master schema and every question key of the
\* ResultMap for that unit, the key <<unitCode, questionKey>> whose value is
\* that entry's generatedAnswer with the student's name in the place of the
\* placeholders, and it has Student_Name.
C38_NoResultDropped ==
    transformedData # << >> =>
        /\ <<"Student_Name", << >> >> \in DOMAIN transformedData
        /\ \A k \in DOMAIN aiAnswers :
               k[1] \in DOMAIN masterSchema =>
                   /\ k \in DOMAIN transformedData
                   /\ Len(transformedData[k]) = Len(aiAnswers[k])
                   /\ \A n \in 1..Len(aiAnswers[k]) :
                          transformedData[k][n] =
                              IF aiAnswers[k][n] \in NamePlaceholders
                              THEN studentName ELSE aiAnswers[k][n]

====
